---- MODULE Spec2Model ----
(***************************************************************************)
(* Model of the utility functions of the repository:                       *)
(*   src/timestamp_conversion.py   _convert_readable_to_strftime,          *)
(*                                 convert_timestamp_format                *)
(*   src/parse_number_to_string.py format_number, format_difference        *)
(*                                                                         *)
(* A Python str is a sequence of one-character strings.  A message built   *)
(* from a literal and an interpolated value is the sequence of the         *)
(* literal (one multi-character element) followed by the value's           *)
(* characters.                                                             *)
(***************************************************************************)
EXTENDS Integers, Sequences, FiniteSets, TLC

VARIABLES
    \* convert_timestamp_format: one call in progress
    pc,         \* "idle" | "parse" | "dispatch" | "done"
    ts,         \* argument ts
    fmt,        \* argument target_format
    src,        \* the fields ts was written from (NoFields for junk input)
    dt,         \* local dt after the parse step, or None
    branch,     \* which branch of the if/elif chain produced the result
    result,     \* returned str
    raised,     \* TRUE when the call raised
    excMsg,     \* message of the raised Exception
    seen,       \* outcomes of the completed calls with the current arguments
    tzLocal,    \* host's local zone, minutes east of UTC
    isoLenient, \* datetime.fromisoformat of Python >= 3.11
    \* format_number / format_difference
    nOp, nX1, nX2, nRes,
    \* _convert_readable_to_strftime, one replace per step
    trIn, trStep, trText, trMade

cvVars == <<pc, ts, fmt, src, dt, branch, result, raised, excMsg, seen, tzLocal, isoLenient>>
numVars == <<nOp, nX1, nX2, nRes>>
trVars == <<trIn, trStep, trText, trMade>>
vars == <<cvVars, numVars, trVars>>

None == "None"

-----------------------------------------------------------------------------
(* str helpers *)

RECURSIVE Concat(_)
Concat(ss) == IF ss = <<>> THEN <<>> ELSE Head(ss) \o Concat(Tail(ss))

Drop(s, n) == SubSeq(s, n + 1, Len(s))

StartsWith(s, p) == Len(s) >= Len(p) /\ SubSeq(s, 1, Len(p)) = p

\* `p in s`
Contains(s, p) == \E i \in 0..(Len(s) - Len(p)) : SubSeq(s, i + 1, i + Len(p)) = p

\* Number of non-overlapping occurrences, scanning left to right (str.count)
RECURSIVE Count(_, _)
Count(s, p) ==
    IF Len(s) < Len(p) THEN 0
    ELSE IF StartsWith(s, p) THEN 1 + Count(Drop(s, Len(p)), p)
    ELSE Count(Tail(s), p)

\* A cell is a character with the number of the substitution that wrote it
\* (0: text of the caller's template).
Cell(c, k) == [c |-> c, by |-> k]
Tag(s, k) == [i \in 1..Len(s) |-> Cell(s[i], k)]
Chars(t) == [i \in 1..Len(t) |-> t[i].c]

\* str.replace(old, new): every non-overlapping occurrence, left to right.
\* The characters written are tagged k.
RECURSIVE ReplaceT(_, _, _, _)
ReplaceT(t, old, new, k) ==
    IF Len(t) < Len(old) THEN t
    ELSE IF Chars(SubSeq(t, 1, Len(old))) = old
         THEN Tag(new, k) \o ReplaceT(Drop(t, Len(old)), old, new, k)
         ELSE <<Head(t)>> \o ReplaceT(Tail(t), old, new, k)

Replace(s, old, new) == Chars(ReplaceT(Tag(s, 0), old, new, 0))

-----------------------------------------------------------------------------
(* _convert_readable_to_strftime *)

tYYYY == <<"Y", "Y", "Y", "Y">>
tMM == <<"M", "M">>
tDD == <<"D", "D">>
tHH == <<"H", "H">>
tMI == <<"M", "I">>
tSS == <<"S", "S">>
tOffset == <<"o", "f", "f", "s", "e", "t">>
tTZ == <<"T", "Z">>

\* a wrong order: minutes before months
SubstitutionsMinuteFirst ==
    << <<tYYYY, <<"%", "Y">> >>,
       <<tMI, <<"%", "M">> >>,
       <<tDD, <<"%", "d">> >>,
       <<tHH, <<"%", "H">> >>,
       <<tMM, <<"%", "m">> >>,
       <<tSS, <<"%", "S">> >>,
       <<tOffset, <<"%", "z">> >>,
       <<tTZ, <<"%", "Z">> >> >>

\* a wrong table: MI written as the month directive
SubstitutionsMinuteAsMonth ==
    << <<tYYYY, <<"%", "Y">> >>,
       <<tMM, <<"%", "m">> >>,
       <<tDD, <<"%", "d">> >>,
       <<tHH, <<"%", "H">> >>,
       <<tMI, <<"%", "m">> >>,
       <<tSS, <<"%", "S">> >>,
       <<tOffset, <<"%", "z">> >>,
       <<tTZ, <<"%", "Z">> >> >>

\* the replace calls, in the order of the source
Substitutions ==
    << <<tYYYY, <<"%", "Y">> >>,
       <<tMM, <<"%", "m">> >>,
       <<tDD, <<"%", "d">> >>,
       <<tHH, <<"%", "H">> >>,
       <<tMI, <<"%", "M">> >>,
       <<tSS, <<"%", "S">> >>,
       <<tOffset, <<"%", "z">> >>,
       <<tTZ, <<"%", "Z">> >> >>

NSubst == Len(Substitutions)

\* the text after the first k replace calls
RECURSIVE TranslateT(_, _)
TranslateT(t, k) ==
    IF k = 0 THEN t
    ELSE ReplaceT(TranslateT(t, k - 1), Substitutions[k][1], Substitutions[k][2], k)

ConvertReadableToStrftime(readable_format) ==
    Chars(TranslateT(Tag(readable_format, 0), NSubst))

-----------------------------------------------------------------------------
(* Templates the translator is stepped on: up to MaxPieces pieces *)

MaxPieces == 3

Pieces == {tYYYY, tMM, tDD, tHH, tMI, tSS, tOffset, tTZ,
           <<"M">>, <<"I">>, <<"S">>, <<"Z">>, <<"-">>}

RECURSIVE PieceSeqs(_)
PieceSeqs(n) ==
    IF n = 0 THEN {<<>>}
    ELSE LET shorter == PieceSeqs(n - 1)
         IN  shorter \cup {p \o s : p \in Pieces, s \in shorter}

Templates == PieceSeqs(MaxPieces) \ {<<>>}

TrInit ==
    /\ trIn \in Templates
    /\ trStep = 0
    /\ trText = Tag(trIn, 0)
    /\ trMade = <<>>

\* result = result.replace(token, directive), the (trStep+1)-th of the source
Substitute ==
    /\ trStep < NSubst
    /\ LET k == trStep + 1
           tok == Substitutions[k][1]
       IN  /\ trText' = ReplaceT(trText, tok, Substitutions[k][2], k)
           /\ trMade' = Append(trMade, Count(Chars(trText), tok))
           /\ trStep' = k
    /\ UNCHANGED trIn
    /\ UNCHANGED <<cvVars, numVars>>

NoFields == [none |-> TRUE]

CvIdle ==
    /\ pc = "idle" /\ ts = <<>> /\ fmt = <<>> /\ src = NoFields /\ dt = NoFields
    /\ branch = "none" /\ result = <<>> /\ raised = FALSE /\ excMsg = <<>>
    /\ seen = {} /\ tzLocal = 0 /\ isoLenient = TRUE

NumIdle == nOp = "idle" /\ nX1 = 0 /\ nX2 = 0 /\ nRes = <<>>

TrIdle == trIn = <<>> /\ trStep = NSubst /\ trText = <<>> /\ trMade = <<>>

InitTranslate == TrInit /\ CvIdle /\ NumIdle
NextTranslate == Substitute
SpecTranslate == InitTranslate /\ [][NextTranslate]_vars

-----------------------------------------------------------------------------
(* Claims about the translator *)

\* the cells written by substitution j that are still in the text
WrittenBy(j) == SelectSeq(trText, LAMBDA c : c.by = j)

RECURSIVE Repeat(_, _)
Repeat(s, n) == IF n = 0 THEN <<>> ELSE s \o Repeat(s, n - 1)

\* some token occurs in the template
HasToken(s) == \E k \in 1..NSubst : Contains(s, Substitutions[k][1])

\* C10: the eight substitutions run in the order YYYY, MM, DD, HH, MI, SS,
\* offset, TZ, and no later substitution alters or consumes text an earlier
\* one wrote: after every step, each directive written by an earlier step is
\* in the text, whole and contiguous, once per replaced token; and a template
\* in which no token occurs is returned unchanged.
OrderIsCollisionFree ==
    /\ <<tYYYY, tMM, tDD, tHH, tMI, tSS, tOffset, tTZ>> =
           [k \in 1..NSubst |-> Substitutions[k][1]]
    /\ \A j \in 1..trStep :
          /\ Chars(WrittenBy(j)) = Repeat(Substitutions[j][2], trMade[j])
          /\ \A i \in 1..Len(trText) :
                (trText[i].by = j /\ trText[i].c = "%") =>
                    /\ i < Len(trText)
                    /\ trText[i + 1] = Cell(Substitutions[j][2][2], j)
    /\ (trStep = NSubst /\ ~HasToken(trIn)) => Chars(trText) = trIn
    /\ (trStep = NSubst /\ trIn # <<>>) => Chars(trText) = ConvertReadableToStrftime(trIn)

\* a template where a wrong order would collide (M, MI) has been translated
OrderWitness ==
    /\ trStep = NSubst
    /\ trIn = <<"M", "I", "M">>
    /\ Chars(trText) = <<"%", "M", "M">>


-----------------------------------------------------------------------------
(* Decimal rendering *)

Abs(n) == IF n < 0 THEN -n ELSE n
Max(a, b) == IF a >= b THEN a ELSE b

DigitChars == <<"0", "1", "2", "3", "4", "5", "6", "7", "8", "9">>
Digit(d) == DigitChars[d + 1]
IsDigit(c) == \E d \in 0..9 : Digit(d) = c
DigitVal(c) == CHOOSE d \in 0..9 : Digit(d) = c

\* str(n), n >= 0
RECURSIVE NatStr(_)
NatStr(n) == IF n < 10 THEN <<Digit(n)>> ELSE NatStr(n \div 10) \o <<Digit(n % 10)>>

\* str(n)
IntStr(n) == IF n < 0 THEN <<"-">> \o NatStr(-n) ELSE NatStr(n)

\* s.zfill(width)
RECURSIVE Zfill(_, _)
Zfill(s, width) == IF Len(s) >= width THEN s ELSE Zfill(<<"0">> \o s, width)

\* f"{num / magnitude:.2f}" for an int num and magnitude 1, 10^3, 10^6 or
\* 10^9: the quotient rounded to hundredths, "-" first when it is negative
\* (a negative quotient that rounds to zero prints "-0.00").  The numbers
\* drawn below have no quotient half-way between two hundredths, where the
\* digit printed depends on the binary double nearest the quotient.
Fmt2f(num, magnitude) ==
    LET a == Abs(num)
        whole == a \div magnitude
        r == a % magnitude
        unit == magnitude \div 100
        h == IF magnitude = 1 THEN 0 ELSE r \div unit
        rest == IF magnitude = 1 THEN 0 ELSE r % unit
        up == IF 2 * rest > unit \/ (2 * rest = unit /\ h % 2 = 1) THEN 1 ELSE 0
        carry == IF h + up = 100 THEN 1 ELSE 0
    IN  (IF num < 0 THEN <<"-">> ELSE <<>>)
        \o NatStr(whole + carry) \o <<".">> \o Zfill(NatStr((h + up) % 100), 2)

-----------------------------------------------------------------------------
(* format_number, format_difference *)

Billion == 1000000000
Million == 1000000
Thousand == 1000

suffixes == << <<Billion, "B">>, <<Million, "M">>, <<Thousand, "K">> >>

\* the for loop over suffixes: the first entry whose threshold num_abs reaches
RECURSIVE FirstReached(_, _)
FirstReached(num_abs, i) ==
    IF i > Len(suffixes) THEN <<1, None>>
    ELSE IF num_abs >= suffixes[i][1] THEN suffixes[i]
    ELSE FirstReached(num_abs, i + 1)

\* lines 44-48: '-' + result when is_negative, in both arms
AddSign(is_negative, text) ==
    IF is_negative THEN <<"-">> \o text ELSE text

\* returns <<result, chosen_suffix, chosen_magnitude>>
FormatNumber(num) ==
    LET is_negative == num < 0
        num_abs == Abs(num)
        chosen == IF num_abs >= Thousand THEN FirstReached(num_abs, 1) ELSE <<1, None>>
        chosen_magnitude == chosen[1]
        chosen_suffix == chosen[2]
        text == IF chosen_suffix # None
                THEN Fmt2f(num, chosen_magnitude) \o <<chosen_suffix>>
                ELSE Fmt2f(num, 1)
    IN  <<AddSign(is_negative, text), chosen_suffix, chosen_magnitude>>

\* a slip in the chain: > for >= at the thousand
ScaleOfLargestStrict(largest_num) ==
    IF largest_num < Thousand THEN <<1, None>>
    ELSE IF largest_num >= Billion THEN <<Billion, "B">>
    ELSE IF largest_num >= Million THEN <<Million, "M">>
    ELSE IF largest_num > Thousand THEN <<Thousand, "K">>
    ELSE <<1, None>>

\* lines 74-85: <<magnitude_to_use, suffix_to_use>>
ScaleOfLargest(largest_num) ==
    IF largest_num < Thousand THEN <<1, None>>
    ELSE IF largest_num >= Billion THEN <<Billion, "B">>
    ELSE IF largest_num >= Million THEN <<Million, "M">>
    ELSE <<Thousand, "K">>

\* returns <<result, suffix_to_use, magnitude_to_use>>; the code returns result
FormatDifference(x1, x2) ==
    LET largest_num == Max(Abs(x1), Abs(x2))
        scale == ScaleOfLargest(largest_num)
        magnitude_to_use == scale[1]
        suffix_to_use == scale[2]
        difference == x1 - x2
        text == IF suffix_to_use # None
                THEN Fmt2f(difference, magnitude_to_use) \o <<suffix_to_use>>
                ELSE Fmt2f(difference, 1)
    IN  <<text, suffix_to_use, magnitude_to_use>>

Nums == {0, 50, 100, 500, 999, 1000, 50000, 456789, 999999, 1000000,
         100000000, 999999999, 1000000000, 1234000000, 1234567890,
         -1, -500, -999, -1000, -1500, -456789, -2000000, -900000000}

NumInit == nOp = "idle" /\ nX1 = 0 /\ nX2 = 0 /\ nRes = <<>>

CallFormatNumber ==
    /\ \E num \in Nums :
         /\ nX1' = num
         /\ nRes' = FormatNumber(num)
    /\ nX2' = 0
    /\ nOp' = "format_number"
    /\ UNCHANGED <<cvVars, trVars>>

CallFormatDifference ==
    /\ \E x1 \in Nums, x2 \in Nums :
         /\ nX1' = x1
         /\ nX2' = x2
         /\ nRes' = FormatDifference(x1, x2)
    /\ nOp' = "format_difference"
    /\ UNCHANGED <<cvVars, trVars>>

InitNumber == NumInit /\ CvIdle /\ TrIdle
NextNumber == CallFormatNumber \/ CallFormatDifference
SpecNumber == InitNumber /\ [][NextNumber]_vars

-----------------------------------------------------------------------------
(* Claims about the magnitude formatter *)

\* the threshold table as the documentation states it
ScaleClass(a) ==
    IF a >= 1000000000 THEN <<1000000000, "B">>
    ELSE IF a >= 1000000 THEN <<1000000, "M">>
    ELSE IF a >= 1000 THEN <<1000, "K">>
    ELSE <<1, None>>

\* |n| rendered at its scale, without a sign
Unsigned(n) ==
    Fmt2f(Abs(n), ScaleClass(Abs(n))[1])
    \o (IF ScaleClass(Abs(n))[2] = None THEN <<>> ELSE <<ScaleClass(Abs(n))[2]>>)

\* C1: format_number keeps the sign: a negative n is rendered as exactly one
\* "-" followed by the rendering of |n| at the chosen scale, and no n >= 0
\* starts with "-".
SignPreserved ==
    nOp = "format_number" =>
        /\ nX1 < 0 => nRes[1] = <<"-">> \o Unsigned(nX1)
        /\ nX1 >= 0 => Head(nRes[1]) # "-"

NoTies ==
    nOp # "idle" =>
        LET v == IF nOp = "format_number" THEN nX1 ELSE nX1 - nX2
            m == nRes[3]
        IN  m = 1 \/ 2 * ((Abs(v) % m) % (m \div 100)) # m \div 100

-----------------------------------------------------------------------------
(* datetime: calendar, fromisoformat, timestamp, astimezone, strftime *)

D2(n) == <<Digit(n \div 10), Digit(n % 10)>>

IsLeap(y) == y % 4 = 0 /\ (y % 100 # 0 \/ y % 400 = 0)

DaysInMonth(y, m) ==
    IF m = 2 THEN (IF IsLeap(y) THEN 29 ELSE 28)
    ELSE IF m \in {4, 6, 9, 11} THEN 30 ELSE 31

RECURSIVE DaysBeforeMonth(_, _)
DaysBeforeMonth(y, m) ==
    IF m = 1 THEN 0 ELSE DaysBeforeMonth(y, m - 1) + DaysInMonth(y, m - 1)

\* date.toordinal(): 0001-01-01 is day 1
ToOrdinal(y, m, d) ==
    LET p == y - 1
    IN  p * 365 + p \div 4 - p \div 100 + p \div 400 + DaysBeforeMonth(y, m) + d

EpochOrdinal == ToOrdinal(1970, 1, 1)

\* date.fromordinal(n) as <<y, m, d>>, for the years the model reaches
FromOrdinal(n) ==
    LET y == CHOOSE yy \in 2023..2027 :
                 ToOrdinal(yy, 1, 1) <= n /\ n < ToOrdinal(yy + 1, 1, 1)
        m == CHOOSE mm \in 1..12 :
                 /\ ToOrdinal(y, mm, 1) <= n
                 /\ n < ToOrdinal(y, mm, 1) + DaysInMonth(y, mm)
    IN  <<y, m, n - ToOrdinal(y, m, 1) + 1>>

Ok(d) == [ok |-> TRUE, dt |-> d, msg |-> <<>>]
Fail(m) == [ok |-> FALSE, dt |-> NoFields, msg |-> m]

\* ValueError(f"Invalid isoformat string: {s!r}")
InvalidIso(s) == Fail(<<"Invalid isoformat string: ", "'">> \o s \o <<"'">>)

AllDigits(s) == \A i \in 1..Len(s) : IsDigit(s[i])

RECURSIVE NatVal(_)
NatVal(s) == IF s = <<>> THEN 0 ELSE NatVal(SubSeq(s, 1, Len(s) - 1)) * 10 + DigitVal(s[Len(s)])

\* length of the run of digits s starts with
RECURSIVE DigitRun(_)
DigitRun(s) == IF s # <<>> /\ IsDigit(Head(s)) THEN 1 + DigitRun(Tail(s)) ELSE 0

RECURSIVE Pow10(_)
Pow10(n) == IF n = 0 THEN 1 ELSE 10 * Pow10(n - 1)

NoOffset == [ok |-> TRUE, aware |-> FALSE, off |-> 0]
BadOffset == [ok |-> FALSE, aware |-> FALSE, off |-> 0]
Offset(minutes) == [ok |-> TRUE, aware |-> TRUE, off |-> minutes]

\* the UTC offset suffix: "" (naive), +HH:MM / -HH:MM, and from Python 3.11
\* also +HHMM / -HHMM; off is in minutes east of UTC
ParseOffset(z, lenient) ==
    IF z = <<>> THEN NoOffset
    ELSE IF Head(z) \notin {"+", "-"} THEN BadOffset
    ELSE LET sign == IF Head(z) = "-" THEN -1 ELSE 1
             b == Tail(z)
         IN  IF Len(b) = 5 /\ b[3] = ":" /\ AllDigits(SubSeq(b, 1, 2))
                /\ AllDigits(SubSeq(b, 4, 5))
             THEN Offset(sign * (NatVal(SubSeq(b, 1, 2)) * 60 + NatVal(SubSeq(b, 4, 5))))
             ELSE IF lenient /\ Len(b) = 4 /\ AllDigits(b)
             THEN Offset(sign * (NatVal(SubSeq(b, 1, 2)) * 60 + NatVal(SubSeq(b, 3, 4))))
             ELSE BadOffset

\* datetime.fromisoformat(s) for the forms YYYY-MM-DD and
\* YYYY-MM-DD<sep>HH:MM:SS[.fff[fff]][offset]: the syntax first, then the
\* range of each field.  Python < 3.11 takes 3 or 6 fraction digits and an
\* offset with a colon only.
FromIsoFormat(s, lenient) ==
    IF ~(/\ Len(s) >= 10 /\ AllDigits(SubSeq(s, 1, 4)) /\ s[5] = "-"
         /\ AllDigits(SubSeq(s, 6, 7)) /\ s[8] = "-" /\ AllDigits(SubSeq(s, 9, 10)))
    THEN InvalidIso(s)
    ELSE
    LET y == NatVal(SubSeq(s, 1, 4))
        mo == NatVal(SubSeq(s, 6, 7))
        d == NatVal(SubSeq(s, 9, 10))
        t == Drop(s, 11)
        timeOk == \/ Len(s) = 10
                  \/ /\ Len(t) >= 8 /\ AllDigits(SubSeq(t, 1, 2)) /\ t[3] = ":"
                     /\ AllDigits(SubSeq(t, 4, 5)) /\ t[6] = ":"
                     /\ AllDigits(SubSeq(t, 7, 8))
    IN  IF ~timeOk THEN InvalidIso(s)
        ELSE
        LET hasTime == Len(s) > 10
            h == IF hasTime THEN NatVal(SubSeq(t, 1, 2)) ELSE 0
            mi == IF hasTime THEN NatVal(SubSeq(t, 4, 5)) ELSE 0
            sec == IF hasTime THEN NatVal(SubSeq(t, 7, 8)) ELSE 0
            rest == IF hasTime THEN Drop(t, 8) ELSE <<>>
            hasFrac == rest # <<>> /\ Head(rest) = "."
            nf == IF hasFrac THEN DigitRun(Tail(rest)) ELSE 0
            fracOk == ~hasFrac \/ nf \in {3, 6} \/ (lenient /\ nf \in 1..6)
            us == IF hasFrac /\ fracOk
                  THEN NatVal(SubSeq(rest, 2, nf + 1)) * Pow10(6 - nf) ELSE 0
            z == IF hasFrac THEN Drop(rest, nf + 1) ELSE rest
            tzinfo == ParseOffset(z, lenient)
        IN  IF ~fracOk \/ ~tzinfo.ok THEN InvalidIso(s)
            ELSE IF y \notin 1..9999
                 THEN Fail(<<"year ">> \o IntStr(y) \o <<" is out of range">>)
            ELSE IF mo \notin 1..12 THEN Fail(<<"month must be in 1..12">>)
            ELSE IF d \notin 1..DaysInMonth(y, mo)
                 THEN Fail(<<"day is out of range for month">>)
            ELSE IF h > 23 THEN Fail(<<"hour must be in 0..23">>)
            ELSE IF mi > 59 THEN Fail(<<"minute must be in 0..59">>)
            ELSE IF sec > 59 THEN Fail(<<"second must be in 0..59">>)
            ELSE Ok([year |-> y, month |-> mo, day |-> d, hour |-> h,
                     minute |-> mi, second |-> sec, micro |-> us,
                     aware |-> tzinfo.aware, off |-> tzinfo.off])

\* the offset the library takes for dt: its own, or the host's for a naive dt
EffectiveOffset(d, tz) == IF d.aware THEN d.off ELSE tz

\* whole seconds of dt.timestamp()
EpochSeconds(d, tz) ==
    (ToOrdinal(d.year, d.month, d.day) - EpochOrdinal) * 86400
    + d.hour * 3600 + d.minute * 60 + d.second - EffectiveOffset(d, tz) * 60

\* a conversion that leaves the wall-clock fields as they are
AsTimezoneUTCUnshifted(d, tz) == [d EXCEPT !.aware = FALSE, !.off = 0]

\* dt.astimezone(timezone.utc).replace(tzinfo=None)
AsTimezoneUTC(d, tz) ==
    LET secs == d.hour * 3600 + d.minute * 60 + d.second - EffectiveOffset(d, tz) * 60
        days == secs \div 86400
        sod == secs % 86400
        ymd == FromOrdinal(ToOrdinal(d.year, d.month, d.day) + days)
    IN  [year |-> ymd[1], month |-> ymd[2], day |-> ymd[3],
         hour |-> sod \div 3600, minute |-> (sod % 3600) \div 60,
         second |-> sod % 60, micro |-> d.micro, aware |-> FALSE, off |-> 0]

\* %z: "" for a naive dt, else sign and HHMM
OffsetText(d) ==
    IF ~d.aware THEN <<>>
    ELSE <<IF d.off < 0 THEN "-" ELSE "+">> \o D2(Abs(d.off) \div 60) \o D2(Abs(d.off) % 60)

\* %Z: "" for a naive dt, else timezone.tzname(): UTC or UTC+HH:MM
TzName(d) ==
    IF ~d.aware THEN <<>>
    ELSE IF d.off = 0 THEN <<"U", "T", "C">>
    ELSE <<"U", "T", "C", IF d.off < 0 THEN "-" ELSE "+">>
         \o D2(Abs(d.off) \div 60) \o <<":">> \o D2(Abs(d.off) % 60)

Directive(d, c) ==
    CASE c = "Y" -> Zfill(NatStr(d.year), 4)
      [] c = "m" -> D2(d.month)
      [] c = "d" -> D2(d.day)
      [] c = "H" -> D2(d.hour)
      [] c = "M" -> D2(d.minute)
      [] c = "S" -> D2(d.second)
      [] c = "z" -> OffsetText(d)
      [] c = "Z" -> TzName(d)
      [] c = "%" -> <<"%">>
      [] OTHER -> <<"%", c>>

\* dt.strftime(pattern)
RECURSIVE Strftime(_, _)
Strftime(d, pattern) ==
    IF pattern = <<>> THEN <<>>
    ELSE IF Head(pattern) = "%" /\ Len(pattern) >= 2
         THEN Directive(d, pattern[2]) \o Strftime(d, Drop(pattern, 2))
         ELSE <<Head(pattern)>> \o Strftime(d, Tail(pattern))

-----------------------------------------------------------------------------
(* convert_timestamp_format *)

tNanos == <<"n", "n", "n", "n", "n", "n", "n", "n", "n">>
tNanosMark == <<"{", "N", "A", "N", "O", "S", "}">>
tZ == <<"Z">>

fmtIsoOffset ==
    <<"Y", "Y", "Y", "Y", "-", "M", "M", "-", "D", "D", "T", "H", "H", ":", "M", "I", ":", "S", "S", "o", "f", "f", "s", "e", "t">>
fmtIsoNanosZ ==
    <<"Y", "Y", "Y", "Y", "-", "M", "M", "-", "D", "D", "T", "H", "H", ":", "M", "I", ":", "S", "S", ".", "n", "n", "n", "n", "n", "n", "n", "n", "n", "Z">>
fmtIsoNanos ==
    <<"Y", "Y", "Y", "Y", "-", "M", "M", "-", "D", "D", "T", "H", "H", ":", "M", "I", ":", "S", "S", ".", "n", "n", "n", "n", "n", "n", "n", "n", "n">>
fmtDate ==
    <<"Y", "Y", "Y", "Y", "-", "M", "M", "-", "D", "D">>
fmtTime ==
    <<"H", "H", ":", "M", "I", ":", "S", "S">>
fmtIso ==
    <<"Y", "Y", "Y", "Y", "-", "M", "M", "-", "D", "D", "T", "H", "H", ":", "M", "I", ":", "S", "S">>
fmtIsoZ ==
    <<"Y", "Y", "Y", "Y", "-", "M", "M", "-", "D", "D", "T", "H", "H", ":", "M", "I", ":", "S", "S", "Z">>
fmtTimeTZ ==
    <<"H", "H", ":", "M", "I", " ", "T", "Z">>
fmtEpochMs ==
    <<"e", "p", "o", "c", "h", "_", "m", "s">>
fmtEpochSec ==
    <<"e", "p", "o", "c", "h", "_", "s", "e", "c">>

\* lines 66-79.  The first fromisoformat sits in a bare try/except; the
\* second does not, so its ValueError leaves the function's try block as is.
ParseStep(s, lenient) ==
    LET first == FromIsoFormat(s, lenient)
        n == Len(s)
    IN  IF first.ok THEN first
        ELSE IF n >= 5 /\ s[n - 4] \in {"+", "-"} /\ s[n - 2] # ":"
        THEN FromIsoFormat(SubSeq(s, 1, n - 2) \o <<":">> \o SubSeq(s, n - 1, n), lenient)
        ELSE Fail(<<"Could not parse timestamp: ">> \o s)

\* lines 138-139
Wrapped(msg) == <<"Error converting timestamp: ">> \o msg

\* str(int(dt.timestamp() * 1000)), for instants from 1970-01-01T00:00:01Z on
EpochMsText(d, tz) ==
    NatStr(EpochSeconds(d, tz)) \o Zfill(NatStr(d.micro \div 1000), 3)

\* str(int(dt.timestamp())), for instants from 1970 on
EpochSecText(d, tz) == NatStr(EpochSeconds(d, tz))

\* the digits without the padding
NanosStrUnpadded(microseconds) == NatStr(microseconds * 1000)

\* lines 99-101
NanosStr(microseconds) == Zfill(NatStr(microseconds * 1000), 9)

\* lines 96-122
NanosBranch(d, target_format, tz) ==
    LET nanos_str == NanosStr(d.micro)
        out == IF Contains(target_format, tZ)
               THEN LET dt_utc == AsTimezoneUTC(d, tz)
                        strftime_format ==
                            ConvertReadableToStrftime(
                                Replace(Replace(target_format, tNanos, tNanosMark), tZ, <<>>))
                    IN  Strftime(dt_utc, strftime_format) \o tZ
               ELSE Strftime(d, ConvertReadableToStrftime(
                                    Replace(target_format, tNanos, tNanosMark)))
    IN  Replace(out, tNanosMark, nanos_str)

\* lines 125-130
UtcBranch(d, target_format, tz) ==
    LET dt_utc == AsTimezoneUTC(d, tz)
        strftime_format == ConvertReadableToStrftime(Replace(target_format, tZ, <<>>))
    IN  Strftime(dt_utc, strftime_format) \o tZ

\* lines 131-134
PlainBranch(d, target_format) == Strftime(d, ConvertReadableToStrftime(target_format))

\* a chain that looks for Z before the nanosecond placeholder
DispatchZFirst(target_format) ==
    IF target_format = fmtEpochMs THEN "epoch_ms"
    ELSE IF target_format = fmtEpochSec THEN "epoch_sec"
    ELSE IF Contains(target_format, tZ) THEN "utc_z"
    ELSE IF Contains(target_format, tNanos) THEN "nanos"
    ELSE "plain"

\* the if/elif/else chain of lines 82-136
Dispatch(target_format) ==
    IF target_format = fmtEpochMs THEN "epoch_ms"
    ELSE IF target_format = fmtEpochSec THEN "epoch_sec"
    ELSE IF Contains(target_format, tNanos) THEN "nanos"
    ELSE IF Contains(target_format, tZ) THEN "utc_z"
    ELSE "plain"

-----------------------------------------------------------------------------
(* The arguments convert_timestamp_format is called with *)

Formats == {fmtIsoOffset, fmtIsoNanosZ, fmtIsoNanos, fmtDate, fmtTime, fmtIso,
            fmtIsoZ, fmtTimeTZ, fmtEpochMs, fmtEpochSec}

Dates == {<<2025, 11, 1>>, <<2025, 12, 31>>, <<2024, 2, 29>>}
Times == {<<0, 0, 0>>, <<23, 59, 59>>}
Micros == {0, 123000, 15204}
Offsets == {NoOffset, Offset(-480), Offset(330)}
LocalZones == {0, -480, 330}

FieldSet ==
    {[year |-> d[1], month |-> d[2], day |-> d[3],
      hour |-> t[1], minute |-> t[2], second |-> t[3],
      micro |-> us, aware |-> o.aware, off |-> o.off] :
        d \in Dates, t \in Times, us \in Micros, o \in Offsets}

\* the ISO-8601 text of the fields: the fraction with 3 digits when it is
\* whole milliseconds, else 6, none when zero; the offset with or without
\* its colon
WriteIso(f, colon) ==
    Zfill(NatStr(f.year), 4) \o <<"-">> \o D2(f.month) \o <<"-">> \o D2(f.day)
    \o <<"T">> \o D2(f.hour) \o <<":">> \o D2(f.minute) \o <<":">> \o D2(f.second)
    \o (IF f.micro = 0 THEN <<>>
        ELSE IF f.micro % 1000 = 0 THEN <<".">> \o Zfill(NatStr(f.micro \div 1000), 3)
        ELSE <<".">> \o Zfill(NatStr(f.micro), 6))
    \o (IF ~f.aware THEN <<>>
        ELSE <<IF f.off < 0 THEN "-" ELSE "+">> \o D2(Abs(f.off) \div 60)
             \o (IF colon THEN <<":">> ELSE <<>>) \o D2(Abs(f.off) % 60))

\* strings that are no timestamp
Junk == {<<"g", "a", "r", "b", "a", "g", "e">>,
         <<"x", "-", "0", "8", "0", "0">>,
         <<"2", "0", "2", "5", "-", "1", "3", "-", "0", "1", "T", "0", "0", ":", "0", "0", ":", "0", "0", "-", "0", "8", "0", "0">>,
         <<"2", "0", "2", "5", "-", "0", "2", "-", "3", "0", "T", "0", "0", ":", "0", "0", ":", "0", "0", "+", "0", "5", ":", "3", "0">>,
         <<"2", "0", "2", "5", "-", "1", "1", "-", "0", "1", "T", "2", "4", ":", "3", "0", ":", "0", "0", "-", "0", "8", "0", "0">>,
         <<"2", "0", "2", "5", "/", "1", "1", "/", "0", "1", " ", "0", "0", ":", "0", "0", ":", "0", "0">>}

CvInit ==
    /\ \/ \E f \in FieldSet, colon \in BOOLEAN :
            /\ (~f.aware => colon)
            /\ src = f
            /\ ts = WriteIso(f, colon)
       \/ /\ src = NoFields
          /\ ts \in Junk
    /\ fmt \in Formats
    /\ tzLocal \in LocalZones
    /\ isoLenient \in BOOLEAN
    /\ pc = "parse"
    /\ dt = NoFields
    /\ branch = "none"
    /\ result = <<>>
    /\ raised = FALSE
    /\ excMsg = <<>>
    /\ seen = {}

Outcome(r, txt, msg) == [raised |-> r, result |-> txt, msg |-> msg]

\* return of a branch
Return(name, txt) ==
    /\ branch' = name
    /\ result' = txt
    /\ pc' = "done"
    /\ seen' = seen \cup {Outcome(FALSE, txt, <<>>)}
    /\ UNCHANGED <<ts, fmt, src, dt, raised, excMsg, tzLocal, isoLenient, numVars, trVars>>

\* lines 64-79 and, when the parse fails, 138-139
Parse ==
    /\ pc = "parse"
    /\ LET r == ParseStep(ts, isoLenient)
       IN  IF r.ok
           THEN /\ dt' = r.dt
                /\ pc' = "dispatch"
                /\ UNCHANGED <<raised, excMsg, seen>>
           ELSE /\ raised' = TRUE
                /\ excMsg' = Wrapped(r.msg)
                /\ pc' = "done"
                /\ seen' = seen \cup {Outcome(TRUE, <<>>, Wrapped(r.msg))}
                /\ UNCHANGED dt
    /\ UNCHANGED <<ts, fmt, src, branch, result, tzLocal, isoLenient, numVars, trVars>>

\* lines 82-84
EpochMs ==
    /\ pc = "dispatch" /\ Dispatch(fmt) = "epoch_ms"
    /\ Return("epoch_ms", EpochMsText(dt, tzLocal))

\* lines 86-88
EpochSec ==
    /\ pc = "dispatch" /\ Dispatch(fmt) = "epoch_sec"
    /\ Return("epoch_sec", EpochSecText(dt, tzLocal))

\* lines 96-122
Nanos ==
    /\ pc = "dispatch" /\ Dispatch(fmt) = "nanos"
    /\ Return("nanos", NanosBranch(dt, fmt, tzLocal))

\* lines 125-130, 136
UtcZ ==
    /\ pc = "dispatch" /\ Dispatch(fmt) = "utc_z"
    /\ Return("utc_z", UtcBranch(dt, fmt, tzLocal))

\* lines 131-136
Plain ==
    /\ pc = "dispatch" /\ Dispatch(fmt) = "plain"
    /\ Return("plain", PlainBranch(dt, fmt))

\* the caller calls again with the same two arguments
CallAgain ==
    /\ pc = "done"
    /\ pc' = "parse"
    /\ dt' = NoFields
    /\ branch' = "none"
    /\ result' = <<>>
    /\ raised' = FALSE
    /\ excMsg' = <<>>
    /\ UNCHANGED <<ts, fmt, src, seen, tzLocal, isoLenient, numVars, trVars>>

\* between two calls the host's local zone is set to another one (TZ, tzset)
SetLocalZone ==
    /\ pc = "parse"
    /\ seen # {}
    /\ tzLocal' \in LocalZones \ {tzLocal}
    /\ UNCHANGED <<pc, ts, fmt, src, dt, branch, result, raised, excMsg, seen,
                   isoLenient, numVars, trVars>>

Init == CvInit /\ NumIdle /\ TrIdle
Next == Parse \/ EpochMs \/ EpochSec \/ Nanos \/ UtcZ \/ Plain \/ CallAgain \/ SetLocalZone
Spec == Init /\ [][Next]_vars

-----------------------------------------------------------------------------
(* Claims about convert_timestamp_format.  What a call should return is    *)
(* written here from the fields the input was written from (src), with a   *)
(* field-by-field calendar, not through the translator and strftime.       *)

Returned == pc = "done" /\ ~raised

MonthLengths(y) ==
    <<31, IF y % 4 = 0 /\ (y % 100 # 0 \/ y % 400 = 0) THEN 29 ELSE 28,
      31, 30, 31, 30, 31, 31, 30, 31, 30, 31>>

PrevDay(f) ==
    IF f.day > 1 THEN [f EXCEPT !.day = f.day - 1]
    ELSE IF f.month > 1
         THEN [f EXCEPT !.month = f.month - 1, !.day = MonthLengths(f.year)[f.month - 1]]
         ELSE [f EXCEPT !.year = f.year - 1, !.month = 12, !.day = 31]

NextDay(f) ==
    IF f.day < MonthLengths(f.year)[f.month] THEN [f EXCEPT !.day = f.day + 1]
    ELSE IF f.month < 12 THEN [f EXCEPT !.month = f.month + 1, !.day = 1]
         ELSE [f EXCEPT !.year = f.year + 1, !.month = 1, !.day = 1]

\* the wall clock of f, which is `zone` minutes east of UTC, moved to UTC
UtcFields(f, zone) ==
    LET m == f.hour * 60 + f.minute - zone
        g == IF m < 0 THEN PrevDay(f) ELSE IF m >= 1440 THEN NextDay(f) ELSE f
        mm == IF m < 0 THEN m + 1440 ELSE IF m >= 1440 THEN m - 1440 ELSE m
    IN  [g EXCEPT !.hour = mm \div 60, !.minute = mm % 60]

\* the zone the instant of src is in: its offset, the host's when it has none
ZoneOf(f) == IF f.aware THEN f.off ELSE tzLocal

DateText(f) == Zfill(NatStr(f.year), 4) \o <<"-">> \o D2(f.month) \o <<"-">> \o D2(f.day)
ClockText(f) == D2(f.hour) \o <<":">> \o D2(f.minute) \o <<":">> \o D2(f.second)
NineDigits(f) == Zfill(NatStr(f.micro), 6) \o <<"0", "0", "0">>
SignedHHMM(f) ==
    IF ~f.aware THEN <<>>
    ELSE (IF f.off < 0 THEN <<"-">> ELSE <<"+">>)
         \o D2(Abs(f.off) \div 60) \o D2(Abs(f.off) % 60)

\* the text of each template of Formats for the fields f
Expect(template, f) ==
    CASE template = fmtIsoOffset -> DateText(f) \o <<"T">> \o ClockText(f) \o SignedHHMM(f)
      [] template = fmtIsoNanos -> DateText(f) \o <<"T">> \o ClockText(f) \o <<".">> \o NineDigits(f)
      [] template = fmtIsoNanosZ ->
             DateText(f) \o <<"T">> \o ClockText(f) \o <<".">> \o NineDigits(f) \o <<"Z">>
      [] template = fmtIsoZ -> DateText(f) \o <<"T">> \o ClockText(f) \o <<"Z">>
      [] template = fmtTimeTZ -> D2(f.hour) \o <<":">> \o D2(f.minute) \o <<" ", "T", "Z">>
      [] template = fmtDate -> DateText(f)
      [] template = fmtTime -> ClockText(f)
      [] template = fmtIso -> DateText(f) \o <<"T">> \o ClockText(f)

IsTemplate(f) == f \notin {fmtEpochMs, fmtEpochSec}

TzAbbreviationWritten ==
    (Returned /\ fmt = fmtTimeTZ) =>
        result = D2(src.hour) \o <<":">> \o D2(src.minute) \o <<" ">> \o TzName(src)

\* the point on the time line of an aware dt
Instant(d) == <<EpochSeconds(d, 0), d.micro>>

SameInstantReparsed ==
    LET again == ParseStep(result, isoLenient)
    IN  /\ again.ok
        /\ again.dt.aware
        /\ Instant(again.dt) = Instant(dt)

\* C4 as stated: every offset-bearing timestamp, fractional seconds
\* included, written with YYYY-MM-DDTHH:MI:SSoffset and parsed again is the
\* same instant.
RoundTripAll ==
    (Returned /\ fmt = fmtIsoOffset /\ src.aware) => SameInstantReparsed

\* C4 amended: an offset-bearing timestamp of whole seconds, written with
\* YYYY-MM-DDTHH:MI:SSoffset and parsed again by the same parse step, is the
\* same instant.
RoundTripWholeSeconds ==
    (Returned /\ fmt = fmtIsoOffset /\ src.aware /\ src.micro = 0) => SameInstantReparsed

\* a colon-less +0530 input of whole seconds came back as the same text
RoundTripWitness ==
    /\ Returned
    /\ fmt = fmtIsoOffset
    /\ src.aware /\ src.micro = 0
    /\ ts = <<"2", "0", "2", "4", "-", "0", "2", "-", "2", "9", "T", "2", "3", ":", "5", "9", ":", "5", "9", "+", "0", "5", "3", "0">>
    /\ result = ts

\* C6: an input that is no timestamp never yields a string: the call raises
\* the one wrapping error, whose message echoes the input as it was passed.
ErrorEchoesInput ==
    (pc = "done" /\ ts \in Junk) =>
        /\ raised
        /\ result = <<>>
        /\ Head(excMsg) = "Error converting timestamp: "
        /\ Contains(excMsg, ts)

\* C7: two calls with the same two arguments have the same outcome, whatever
\* the host's local zone is at each call.
SameArgumentsSameResult == Cardinality(seen) <= 1

Priority(f) ==
    CASE f \in {fmtEpochMs} -> "epoch_ms"
      [] f \in {fmtEpochSec} -> "epoch_sec"
      [] f \in {fmtIsoNanosZ, fmtIsoNanos} -> "nanos"
      [] f \in {fmtIsoZ, fmtTimeTZ} -> "utc_z"
      [] OTHER -> "plain"

\* C9: a call parses first (a failed parse ends it before any branch), and a
\* parsed input goes through exactly one branch, in the priority epoch_ms /
\* epoch_sec, then nnnnnnnnn, then Z, then the plain template.
ParseThenOneBranch ==
    /\ [](/\ pc = "parse" => (branch = "none" /\ dt = NoFields)
          /\ pc = "dispatch" => (branch = "none" /\ dt # NoFields /\ ~raised)
          /\ (pc = "done" /\ raised) => (branch = "none" /\ dt = NoFields)
          /\ Returned => (branch = Priority(fmt) /\ dt # NoFields))
    /\ [][branch' # branch =>
            \/ pc = "dispatch" /\ pc' = "done" /\ branch = "none"
            \/ pc = "done" /\ pc' = "parse" /\ branch' = "none"]_vars

\* a template with both nnnnnnnnn and Z went through the nanosecond branch
BranchWitness ==
    /\ Returned
    /\ fmt = fmtIsoNanosZ
    /\ branch = "nanos"
====
